---- MODULE Spec2Model ----
(***************************************************************************)
(* Model of monitor_latency.py: the latency-optimisation loop of main(),   *)
(* the public-IP lifecycle manager (ensure_ephemeral_attached,             *)
(* switch_ephemeral_ip, wait_assigned) and the cloud state they act on.    *)
(*                                                                         *)
(* Every cloud call is one step.  A call either succeeds, raises           *)
(* oci.exceptions.ServiceError ("svcerr": the only exception class the     *)
(* script catches around cloud calls) or raises anything else ("other":    *)
(* a connection error, a timeout).  The cloud keeps at most one public     *)
(* address on a private address: a create for an occupied private address  *)
(* is rejected.                                                            *)
(***************************************************************************)
EXTENDS Integers, Sequences, FiniteSets, TLC

\* ---- bounds of the model
MaxSwitches == 2
MaxLat == 2
MaxCalls == 3
MaxAttempts == 30

\* ---- program constants
\* wait_assigned(net, pub_id, tries=20, ...)
Tries == 20

VARIABLES
    pc,            \* position of the process
    state,         \* state of the loop: INIT, PROBING, SWITCHING, SUCCESS, EXHAUSTED
    caller,        \* "main": the run of main(); "harness": direct calls of the lifecycle manager
    envOk,         \* all required environment variables are set
    hasVnic,       \* list_vnic_attachments returns a non-empty list
    hasPip,        \* list_private_ips returns a non-empty list
    threshold,     \* LATENCY_THRESHOLD_MS
    max_switches,  \* MAX_SWITCHES
    cloud,         \* the public addresses of the cloud; an address's id is its index
    touched,       \* some cloud call has been made
    calls,         \* the mutating cloud calls and backoff sleeps issued so far, in order
    frame,         \* locals of the lifecycle-manager call in progress
    pub,           \* main: the binding the loop holds
    switches,      \* main: the switch counter
    success,       \* main: the success flag
    trials,        \* main: the trial list
    notified,      \* main: what became of the notification
    file,          \* the contents this run has written to oci_latency_trials.json, in order
    disk,          \* the content of oci_latency_trials.json on disk
    report,        \* main: the summary handed to the notifier
    tcp_pings,     \* main: the number of calls of tcp_ping
    exitCode,      \* process exit status, -1 while running
    hist           \* harness: the calls that returned, in order

vars == <<pc, state, caller, envOk, hasVnic, hasPip, threshold, max_switches, cloud,
          touched, calls, frame, pub, switches, success, trials, notified, file,
          disk, report, tcp_pings, exitCode, hist>>

\* avg is None
Absent == -1

\* no object (None)
NoObj == [id |-> 0, lifetime |-> "NONE", lifecycle |-> "NONE"]

NoFrame == [fn |-> "none", old |-> NoObj, new |-> 0, k |-> 0, backoff |-> 0, base |-> 0]

Min(a, b) == IF a < b THEN a ELSE b

Last(s) == s[Len(s)]

\* ---- the cloud

\* the public-IP object with this id, as a cloud read returns it
Obj(c, i) == [id |-> i, lifetime |-> c[i].lifetime, lifecycle |-> c[i].lifecycle]

\* the ids of the public addresses bound to the managed private address
BoundIds(c) == {i \in DOMAIN c : c[i].exists /\ c[i].bound}

Reserved1 == [lifetime |-> "RESERVED", lifecycle |-> "ASSIGNED", bound |-> TRUE, exists |-> TRUE]

Ephemeral1 == [lifetime |-> "EPHEMERAL", lifecycle |-> "ASSIGNED", bound |-> TRUE, exists |-> TRUE]

\* the binding of the private address when the run starts: none, RESERVED or EPHEMERAL
InitialClouds == {<<>>, <<Reserved1>>, <<Ephemeral1>>}

\* update_public_ip(private_ip_id=None): the address is detached and kept
Unbound(c, i) == [c EXCEPT ![i].bound = FALSE, ![i].lifecycle = "AVAILABLE"]

\* delete_public_ip: the address is released
Deleted(c, i) == [c EXCEPT ![i].bound = FALSE, ![i].exists = FALSE, ![i].lifecycle = "TERMINATED"]

\* create_public_ip(lifetime="EPHEMERAL") for the private address
Created(c) == Append(c, [lifetime |-> "EPHEMERAL", lifecycle |-> "PROVISIONING",
                         bound |-> TRUE, exists |-> TRUE])

Logged(op, i, res) == Append(calls, [op |-> op, id |-> i, res |-> res, fn |-> frame.fn,
                                     busy |-> BoundIds(cloud) # {}])

\* ---- leaving the lifecycle manager

\* the positions of a process ended by an uncaught exception, one per raising call
RaisedPcs == {"raised_get_instance", "raised_lookup", "raised_unbind", "raised_cleanup",
              "raised_create", "raised_poll"}

\* a faulty error path: a failed create or poll is caught and the run carries on with
\* the binding it held
RaiseSwallowed(at) ==
    /\ pc' = IF caller = "main" /\ at \in {"raised_create", "raised_poll"} THEN "probe" ELSE at
    /\ exitCode' = IF caller = "main" /\ at \notin {"raised_create", "raised_poll"}
                   THEN 1 ELSE exitCode
    /\ UNCHANGED <<state, pub, switches, success, trials, tcp_pings, hist>>

\* an exception leaves the lifecycle manager at position `at`: main() catches nothing,
\* the process dies with a traceback (exit status 1)
Raise(at) ==
    /\ pc' = at
    /\ exitCode' = IF caller = "main" THEN 1 ELSE exitCode
    /\ UNCHANGED <<state, pub, switches, success, trials, tcp_pings, hist>>

\* the lifecycle manager returns obj; cs is the call log at that moment
Return(obj, cs) ==
    IF caller = "main"
    THEN /\ pub' = obj
         /\ pc' = "probe"
         /\ state' = "PROBING"
         /\ switches' = IF frame.fn = "ensure" THEN 0 ELSE switches
         /\ success' = IF frame.fn = "ensure" THEN FALSE ELSE success
         /\ UNCHANGED <<trials, tcp_pings, exitCode, hist>>
    ELSE /\ hist' = Append(hist, [fn |-> frame.fn, old |-> frame.old, ret |-> obj,
                                  base |-> frame.base, end |-> Len(cs)])
         /\ pc' = "h_idle"
         /\ UNCHANGED <<state, pub, switches, success, trials, tcp_pings, exitCode>>

\* ---- get_public_ip_obj_by_private

\* what the lookup returns: the bound object, or None when the call raised ServiceError
LookupResult(r, c) ==
    IF r = "found" THEN Obj(c, CHOOSE i \in BoundIds(c) : TRUE) ELSE NoObj

\* ---- ensure_ephemeral_attached

\* a faulty test: any binding found is returned as it is
EnsureBranchAnyBinding(obj) == IF obj # NoObj THEN "return" ELSE "create"

\* the branch taken on the looked-up object
EnsureBranch(obj) ==
    IF obj # NoObj /\ obj.lifetime = "EPHEMERAL" THEN "return"
    ELSE IF obj # NoObj /\ obj.lifetime = "RESERVED" THEN "unbind"
    ELSE "create"

\* obj = get_public_ip_obj_by_private(...) and the two tests on it
EnsureLookup ==
    /\ pc = "e_lookup"
    /\ touched' = TRUE
    /\ \E r \in {"found", "svcerr", "other"} :
         /\ r = "found" => BoundIds(cloud) # {}
         /\ IF r = "other"
            THEN Raise("raised_lookup") /\ UNCHANGED frame
            ELSE LET obj == LookupResult(r, cloud) IN
                 CASE EnsureBranch(obj) = "return" ->
                        Return(obj, calls) /\ frame' = NoFrame
                   [] EnsureBranch(obj) = "unbind" ->
                        /\ pc' = "e_unbind"
                        /\ frame' = [frame EXCEPT !.old = obj]
                        /\ UNCHANGED <<state, pub, switches, success, trials, tcp_pings,
                                       exitCode, hist>>
                   [] OTHER ->
                        /\ pc' = "create"
                        /\ UNCHANGED <<frame, state, pub, switches, success, trials,
                                       tcp_pings, exitCode, hist>>
    /\ UNCHANGED <<caller, envOk, hasVnic, hasPip, threshold, max_switches, cloud, calls,
                   notified, report, file, disk>>

\* net.update_public_ip(obj.id, private_ip_id=None); time.sleep(2): not inside any try
EnsureUnbind ==
    /\ pc = "e_unbind"
    /\ touched' = TRUE
    /\ \E r \in {"ok", "svcerr", "other"} :
         /\ calls' = Logged("unbind", frame.old.id, r)
         /\ IF r = "ok"
            THEN /\ cloud' = Unbound(cloud, frame.old.id)
                 /\ pc' = "create"
                 /\ UNCHANGED <<state, pub, switches, success, trials, tcp_pings, exitCode,
                                hist>>
            ELSE Raise("raised_unbind") /\ UNCHANGED cloud
    /\ UNCHANGED <<caller, envOk, hasVnic, hasPip, threshold, max_switches, frame,
                   notified, report, file, disk>>

\* ---- switch_ephemeral_ip

\* a faulty cleanup: whatever is bound is deleted, a RESERVED address too
CleanupAlwaysDelete(old) == IF old # NoObj THEN "delete" ELSE "none"

\* the cleanup call chosen for old_obj
CleanupOp(old) ==
    IF old # NoObj /\ old.lifetime = "EPHEMERAL" THEN "delete"
    ELSE IF old # NoObj /\ old.lifetime = "RESERVED" THEN "unbind"
    ELSE "none"

\* except oci.exceptions.ServiceError: the outcomes of the cleanup call that are caught
Swallowed(r) == r = "svcerr"

\* the cloud's state after a cleanup call with outcome r
AfterCleanup(op, i, r) ==
    IF r # "ok" THEN cloud
    ELSE IF op = "delete" THEN Deleted(cloud, i) ELSE Unbound(cloud, i)

\* the try block: delete (EPHEMERAL) or unbind (RESERVED) the old binding
SwitchCleanup ==
    /\ pc = "s_cleanup"
    /\ LET op == CleanupOp(frame.old) IN
       IF op = "none"
       THEN /\ pc' = "s_backoff"
            /\ UNCHANGED <<cloud, calls, touched, state, pub, switches, success, trials,
                           tcp_pings, exitCode, hist>>
       ELSE /\ touched' = TRUE
            /\ \E r \in {"ok", "svcerr", "other"} :
                 \* an address that is gone cannot be deleted or updated again
                 /\ r = "ok" => cloud[frame.old.id].exists
                 /\ calls' = Logged(op, frame.old.id, r)
                 /\ cloud' = AfterCleanup(op, frame.old.id, r)
                 /\ IF r = "ok" \/ Swallowed(r)
                    THEN /\ pc' = "s_backoff"
                         /\ UNCHANGED <<state, pub, switches, success, trials, tcp_pings,
                                        exitCode, hist>>
                    ELSE Raise("raised_cleanup")
    /\ UNCHANGED <<caller, envOk, hasVnic, hasPip, threshold, max_switches, frame,
                   notified, report, file, disk>>

\* if backoff_s > 0: time.sleep(backoff_s)
SwitchBackoff ==
    /\ pc = "s_backoff"
    /\ calls' = IF frame.backoff > 0 THEN Logged("sleep", frame.backoff, "ok") ELSE calls
    /\ pc' = "create"
    /\ UNCHANGED <<state, caller, envOk, hasVnic, hasPip, threshold, max_switches, cloud,
                   touched, frame, pub, switches, success, trials, tcp_pings, notified,
                   report, file, disk, exitCode, hist>>

\* ---- the tail shared by both: create_public_ip, then wait_assigned

\* the cloud accepts a create only for a private address with no public address
CreateAccepted(c) == BoundIds(c) = {}

\* new_obj = net.create_public_ip(c).data
CreatePublicIp ==
    /\ pc = "create"
    /\ touched' = TRUE
    /\ \E r \in {"ok", "svcerr", "other"} :
         /\ r = "ok" => CreateAccepted(cloud)
         /\ IF r = "ok"
            THEN /\ cloud' = Created(cloud)
                 /\ calls' = Logged("create", Len(cloud) + 1, r)
                 /\ frame' = [frame EXCEPT !.new = Len(cloud) + 1, !.k = 0]
                 /\ pc' = "poll"
                 /\ UNCHANGED <<state, pub, switches, success, trials, tcp_pings, exitCode,
                                hist>>
            ELSE /\ calls' = Logged("create", 0, r)
                 /\ Raise("raised_create")
                 /\ UNCHANGED <<cloud, frame>>
    /\ UNCHANGED <<caller, envOk, hasVnic, hasPip, threshold, max_switches, notified,
                   report, file, disk>>

\* the lifecycle states a read of address i can observe: provisioning may have completed
Observable(c, i) ==
    IF c[i].lifecycle = "PROVISIONING" THEN {"PROVISIONING", "ASSIGNED"}
    ELSE {c[i].lifecycle}

\* a faulty wait: the lifecycle state is not tested inside the loop
PollAgainIgnoresState(k, st) == k < Tries

\* after a read that observed st, with k reads of the for loop done before it: the loop
\* goes on unless this read saw ASSIGNED or was the one after the loop
PollAgain(k, st) == k < Tries /\ st # "ASSIGNED"

\* wait_assigned: one round of the for loop (sleep, read, test), or the read after it
PollRead ==
    /\ pc = "poll"
    /\ touched' = TRUE
    /\ \/ \E st \in Observable(cloud, frame.new) :
            LET c2 == [cloud EXCEPT ![frame.new].lifecycle = st] IN
            /\ cloud' = c2
            /\ IF PollAgain(frame.k, st)
               THEN /\ frame' = [frame EXCEPT !.k = frame.k + 1]
                    /\ UNCHANGED <<pc, state, pub, switches, success, trials, tcp_pings,
                                   exitCode, hist>>
               ELSE Return(Obj(c2, frame.new), calls) /\ frame' = NoFrame
       \/ Raise("raised_poll") /\ UNCHANGED <<cloud, frame>>
    /\ UNCHANGED <<caller, envOk, hasVnic, hasPip, threshold, max_switches, calls,
                   notified, report, file, disk>>

\* ---- main(): setup

\* sys.exit(n)
Exit(n) ==
    /\ pc' = "exited"
    /\ exitCode' = n

\* a faulty setup: the required variables are not checked
BuildConfigUnchecked ==
    /\ pc = "config"
    /\ pc' = "get_instance"
    /\ UNCHANGED <<state, caller, envOk, hasVnic, hasPip, threshold, max_switches, cloud,
                   touched, calls, frame, pub, switches, success, trials, tcp_pings,
                   notified, report, file, disk, exitCode, hist>>

\* build_config_from_env: sys.exit(2) when a required variable is missing
BuildConfig ==
    /\ pc = "config"
    /\ IF envOk THEN pc' = "get_instance" /\ UNCHANGED exitCode ELSE Exit(2)
    /\ UNCHANGED <<state, caller, envOk, hasVnic, hasPip, threshold, max_switches, cloud,
                   touched, calls, frame, pub, switches, success, trials, tcp_pings,
                   notified, report, file, disk, hist>>

\* inst = compute.get_instance(instance_id).data
GetInstance ==
    /\ pc = "get_instance"
    /\ touched' = TRUE
    /\ \/ pc' = "pick_vnic" /\ UNCHANGED exitCode
       \/ pc' = "raised_get_instance" /\ exitCode' = 1
    /\ UNCHANGED <<state, caller, envOk, hasVnic, hasPip, threshold, max_switches, cloud,
                   calls, frame, pub, switches, success, trials, tcp_pings, notified,
                   report, file, disk, hist>>

\* pick_primary_vnic: sys.exit(2) when the instance has no VNIC attachment
PickPrimaryVnic ==
    /\ pc = "pick_vnic"
    /\ touched' = TRUE
    /\ IF hasVnic THEN pc' = "pick_pip" /\ UNCHANGED exitCode ELSE Exit(2)
    /\ UNCHANGED <<state, caller, envOk, hasVnic, hasPip, threshold, max_switches, cloud,
                   calls, frame, pub, switches, success, trials, tcp_pings, notified,
                   report, file, disk, hist>>

\* pick_primary_private_ip: sys.exit(2) when the VNIC has no private address;
\* otherwise main goes on to trials = [] and the call of ensure_ephemeral_attached
PickPrimaryPrivateIp ==
    /\ pc = "pick_pip"
    /\ touched' = TRUE
    /\ IF hasPip
       THEN /\ pc' = "e_lookup"
            /\ frame' = [NoFrame EXCEPT !.fn = "ensure", !.base = Len(calls)]
            /\ UNCHANGED exitCode
       ELSE Exit(2) /\ UNCHANGED frame
    /\ UNCHANGED <<state, caller, envOk, hasVnic, hasPip, threshold, max_switches, cloud,
                   calls, pub, switches, success, trials, tcp_pings, notified, report,
                   file, disk, hist>>

\* ---- main(): the loop

\* a faulty threshold test: a latency equal to the threshold counts as success
BelowOrEqual(avg, th) == avg # Absent /\ avg <= th

\* if avg is not None: ... if avg < threshold
Below(avg, th) == avg # Absent /\ avg < th

\* a faulty budget test: the loop allows twice the configured number of switches
BudgetSpentDoubled(sw, mx) == sw >= 2 * mx

\* a faulty budget test: one switch too many
BudgetSpentOffByOne(sw, mx) == sw > mx

\* if switches >= max_switches
BudgetSpent(sw, mx) == sw >= mx

\* a faulty probe: tcp_ping is called in every iteration
ReachableTcpAlways(avg, tcp) == tcp

\* reachable_tcp: tcp_ping is called only when avg is None
ReachableTcp(avg, tcp) == IF avg = Absent THEN tcp ELSE FALSE

\* the record appended to trials
Trial(ip, avg, tcp) ==
    [ip |-> ip, avg_ms |-> avg, icmp_ok |-> avg # Absent, tcp_ok |-> ReachableTcp(avg, tcp)]

\* a faulty decision: the loop stops when the TCP probe fails too (the break that the
\* source leaves commented out)
DecideBreakOnTcpDown(avg, tcp, sw, mx, th) ==
    IF avg # Absent /\ avg < th THEN "SUCCESS"
    ELSE IF avg = Absent /\ ~tcp THEN "EXHAUSTED"
    ELSE IF sw >= mx THEN "EXHAUSTED"
    ELSE "SWITCHING"

\* a faulty decision: the budget is tested first, a probe under budget always switches
DecideBudgetFirst(avg, tcp, sw, mx, th) ==
    IF sw < mx THEN "SWITCHING"
    ELSE IF avg # Absent /\ avg < th THEN "SUCCESS"
    ELSE "EXHAUSTED"

\* where the iteration goes after the trial is recorded
Decide(avg, tcp, sw, mx, th) ==
    IF Below(avg, th) THEN "SUCCESS"
    ELSE IF BudgetSpent(sw, mx) THEN "EXHAUSTED"
    ELSE "SWITCHING"

\* if avg is None: the test that guards the call of tcp_ping
TcpPinged(avg) == avg = Absent

\* a faulty recorder: the list holds the latest trial only
RecordedLatestOnly(ts, t) == <<t>>

\* trials.append(t)
Recorded(ts, t) == Append(ts, t)

\* one iteration up to its decision: measure_latency, tcp_ping, trials.append, the tests;
\* tcp is what a TCP connect to the address would give, consulted only if tcp_ping is called
Probe ==
    /\ pc = "probe"
    /\ \E avg \in {Absent} \cup (0 .. MaxLat), tcp \in BOOLEAN :
         /\ tcp_pings' = tcp_pings + (IF TcpPinged(avg) THEN 1 ELSE 0)
         /\ trials' = Recorded(trials, Trial(pub.id, avg, tcp))
         /\ state' = Decide(avg, tcp, switches, max_switches, threshold)
         /\ success' = (state' = "SUCCESS")
         /\ pc' = IF state' = "SWITCHING" THEN "switch" ELSE "summary"
    /\ UNCHANGED <<caller, envOk, hasVnic, hasPip, threshold, max_switches, cloud, touched,
                   calls, frame, pub, switches, notified, report, file, disk, exitCode,
                   hist>>

\* a faulty backoff: the cap is missing
BackoffUncapped(s) == 2 + s \div 3

\* backoff = min(10, 2 + switches // 3)
Backoff(s) == Min(10, 2 + s \div 3)

\* switches += 1; backoff = ...; the call of switch_ephemeral_ip(..., pub, backoff)
Switch ==
    /\ pc = "switch"
    /\ switches' = switches + 1
    /\ frame' = [NoFrame EXCEPT !.fn = "switch", !.old = pub, !.backoff = Backoff(switches'),
                                !.base = Len(calls)]
    /\ pc' = "s_cleanup"
    /\ UNCHANGED <<state, caller, envOk, hasVnic, hasPip, threshold, max_switches, cloud,
                   touched, calls, pub, success, trials, tcp_pings, notified, report, file,
                   disk, exitCode, hist>>

\* ---- main(): after the loop

\* no summary built yet
NoReport == [ok |-> FALSE, count |-> 0, final_ip |-> 0, final_avg |-> Absent]

\* a faulty summary: the first trial is reported as the final one
SummaryOfFirst(ts, ok) ==
    [ok |-> ok, count |-> Len(ts),
     final_ip |-> IF ts # <<>> THEN ts[1].ip ELSE 0,
     final_avg |-> IF ts # <<>> THEN ts[1].avg_ms ELSE Absent]

\* final_ip, final_avg, ok and the attempt count of the message text
Summary(ts, ok) ==
    [ok |-> ok, count |-> Len(ts),
     final_ip |-> IF ts # <<>> THEN Last(ts).ip ELSE 0,
     final_avg |-> IF ts # <<>> THEN Last(ts).avg_ms ELSE Absent]

\* a faulty notifier: a failed send is not caught
AfterNotifyFatal(r) == IF r = "failed" THEN "raised_notify" ELSE "write"

\* where main goes after tg_send_message: every exception of the send is caught
AfterNotify(r) == "write"

\* the summary is built and tg_send_message is called: it returns at once without token
\* or chat id ("skipped"); any exception of the send is caught ("failed")
Notify ==
    /\ pc = "summary"
    /\ report' = Summary(trials, success)
    /\ \E r \in {"skipped", "sent", "failed"} :
         /\ notified' = r
         /\ pc' = AfterNotify(r)
    /\ UNCHANGED <<state, caller, envOk, hasVnic, hasPip, threshold, max_switches, cloud,
                   touched, calls, frame, pub, switches, success, trials, tcp_pings, file,
                   disk, exitCode, hist>>

\* a record left in the file by an earlier run
StaleTrial == [ip |-> 0, avg_ms |-> Absent, icmp_ok |-> FALSE, tcp_ok |-> FALSE]

\* what oci_latency_trials.json holds when the run starts: nothing, or an earlier run's list
EarlierFiles == {<<>>, <<StaleTrial>>}

\* a faulty dump: only the latest trial is written
DumpedRecent(ts) == IF ts = <<>> THEN ts ELSE <<Last(ts)>>

\* json.dump(trials, f): the whole list
Dumped(ts) == ts

\* a faulty open: mode "a", the list is added to what the file held
WrittenAppended(old, new) == old \o new

\* open("oci_latency_trials.json", "w"): the file is truncated, then holds the dump
Written(old, new) == new

\* json.dump(trials, open("oci_latency_trials.json", "w")); sys.exit(0 if success else 1)
WriteAndExit ==
    /\ pc = "write"
    /\ file' = Append(file, Dumped(trials))
    /\ disk' = Written(disk, Dumped(trials))
    /\ Exit(IF success THEN 0 ELSE 1)
    /\ UNCHANGED <<state, caller, envOk, hasVnic, hasPip, threshold, max_switches, cloud,
                   touched, calls, frame, pub, switches, success, trials, tcp_pings,
                   notified, report, hist>>

\* ---- the run of main()

Init ==
    /\ pc = "config"
    /\ state = "INIT"
    /\ caller = "main"
    /\ envOk \in BOOLEAN
    /\ hasVnic \in BOOLEAN
    /\ hasPip \in BOOLEAN
    /\ threshold \in 1 .. MaxLat
    /\ max_switches \in -1 .. MaxSwitches
    /\ cloud \in InitialClouds
    /\ touched = FALSE
    /\ calls = <<>>
    /\ frame = NoFrame
    /\ pub = NoObj
    /\ switches = 0
    /\ success = FALSE
    /\ trials = <<>>
    /\ notified = "no"
    /\ file = <<>>
    /\ disk \in EarlierFiles
    /\ report = NoReport
    /\ tcp_pings = 0
    /\ exitCode = -1
    /\ hist = <<>>

Next ==
    \/ BuildConfig
    \/ GetInstance
    \/ PickPrimaryVnic
    \/ PickPrimaryPrivateIp
    \/ EnsureLookup
    \/ EnsureUnbind
    \/ CreatePublicIp
    \/ PollRead
    \/ Probe
    \/ Switch
    \/ SwitchCleanup
    \/ SwitchBackoff
    \/ Notify
    \/ WriteAndExit

Spec == Init /\ [][Next]_vars

\* the run of a process whose every call returns or raises: a single sequential flow of
\* control that always takes its next step
SpecFair == Init /\ [][Next]_vars /\ WF_vars(Next)

\* ---- the lifecycle manager called directly, on every initial binding

\* the objects a caller can hold: None, any address of the cloud, any returned binding
Holdable == {NoObj} \cup {Obj(cloud, i) : i \in DOMAIN cloud}
                    \cup {hist[j].ret : j \in DOMAIN hist}

\* a call ensure_ephemeral_attached(net, compartment_id, private_ip_id)
CallEnsure ==
    /\ pc = "h_idle"
    /\ Len(hist) < MaxCalls
    /\ frame' = [NoFrame EXCEPT !.fn = "ensure", !.base = Len(calls)]
    /\ pc' = "e_lookup"
    /\ UNCHANGED <<state, caller, envOk, hasVnic, hasPip, threshold, max_switches, cloud,
                   touched, calls, pub, switches, success, trials, tcp_pings, notified,
                   report, file, disk, exitCode, hist>>

\* a call switch_ephemeral_ip(net, compartment_id, private_ip_id, old_obj, backoff_s)
CallSwitch ==
    /\ pc = "h_idle"
    /\ Len(hist) < MaxCalls
    /\ \E old \in Holdable, b \in {0, Backoff(1)} :
         frame' = [NoFrame EXCEPT !.fn = "switch", !.old = old, !.backoff = b,
                                  !.base = Len(calls)]
    /\ pc' = "s_cleanup"
    /\ UNCHANGED <<state, caller, envOk, hasVnic, hasPip, threshold, max_switches, cloud,
                   touched, calls, pub, switches, success, trials, tcp_pings, notified,
                   report, file, disk, exitCode, hist>>

InitLM ==
    /\ pc = "h_idle"
    /\ state = "INIT"
    /\ caller = "harness"
    /\ envOk = TRUE
    /\ hasVnic = TRUE
    /\ hasPip = TRUE
    /\ threshold = 1
    /\ max_switches = 0
    /\ cloud \in InitialClouds
    /\ touched = FALSE
    /\ calls = <<>>
    /\ frame = NoFrame
    /\ pub = NoObj
    /\ switches = 0
    /\ success = FALSE
    /\ trials = <<>>
    /\ notified = "no"
    /\ file = <<>>
    /\ disk = <<>>
    /\ report = NoReport
    /\ tcp_pings = 0
    /\ exitCode = -1
    /\ hist = <<>>

NextLM ==
    \/ CallEnsure
    \/ CallSwitch
    \/ EnsureLookup
    \/ EnsureUnbind
    \/ SwitchCleanup
    \/ SwitchBackoff
    \/ CreatePublicIp
    \/ PollRead

SpecLM == InitLM /\ [][NextLM]_vars

\* ---- the backoff schedule of a run of max_switches switches

\* switches += 1; backoff = min(10, 2 + switches // 3); ...; time.sleep(backoff_s)
BackoffStep ==
    /\ pc = "b_run"
    /\ switches < max_switches
    /\ switches' = switches + 1
    /\ frame' = [NoFrame EXCEPT !.fn = "switch", !.backoff = Backoff(switches')]
    /\ calls' = Append(calls, [op |-> "sleep", id |-> Backoff(switches'), res |-> "ok",
                               fn |-> "switch", busy |-> FALSE])
    /\ UNCHANGED <<pc, state, caller, envOk, hasVnic, hasPip, threshold, max_switches,
                   cloud, touched, pub, success, trials, tcp_pings, notified, report, file,
                   disk, exitCode, hist>>

InitBackoff ==
    /\ pc = "b_run"
    /\ state = "INIT"
    /\ caller = "main"
    /\ envOk = TRUE
    /\ hasVnic = TRUE
    /\ hasPip = TRUE
    /\ threshold = 1
    /\ max_switches \in 0 .. MaxAttempts
    /\ cloud = <<>>
    /\ touched = FALSE
    /\ calls = <<>>
    /\ frame = NoFrame
    /\ pub = NoObj
    /\ switches = 0
    /\ success = FALSE
    /\ trials = <<>>
    /\ notified = "no"
    /\ file = <<>>
    /\ disk = <<>>
    /\ report = NoReport
    /\ tcp_pings = 0
    /\ exitCode = -1
    /\ hist = <<>>

NextBackoff == BackoffStep

SpecBackoff == InitBackoff /\ [][NextBackoff]_vars

\* ---- properties of the loop (specification Spec)

\* the creates issued by calls of switch_ephemeral_ip: one per call that got that far
SwitchCreates == Cardinality({j \in DOMAIN calls : calls[j].fn = "switch" /\ calls[j].op = "create"})

\* the switch budget: a negative MAX_SWITCHES allows no switch
Budget == IF max_switches < 0 THEN 0 ELSE max_switches

\* no probe of the run gave a mean latency strictly below the threshold
NoTrialBelow == \A j \in DOMAIN trials :
                    trials[j].avg_ms = Absent \/ trials[j].avg_ms >= threshold

\* the run went through the loop and the process has exited
LoopExited == pc = "exited" /\ state # "INIT"

\* C1 as stated: a run with no probe below the threshold performs exactly max_switches
\* switches and ends EXHAUSTED with exit code 1, and the switch counter never exceeds
\* max_switches.
C1_Original ==
    /\ state # "INIT" => switches <= max_switches
    /\ (LoopExited /\ NoTrialBelow) =>
          /\ state = "EXHAUSTED"
          /\ exitCode = 1
          /\ switches = max_switches
          /\ SwitchCreates = max_switches

\* C1 amended: with the budget max(max_switches, 0) in place of max_switches, a run with
\* no probe below the threshold that exits from the loop has performed exactly budget
\* switches and ends EXHAUSTED with exit code 1; the counter never exceeds the budget,
\* and EXHAUSTED is entered only with the budget used up.
C1_Exhaustion ==
    /\ state # "INIT" => switches <= Budget
    /\ state = "EXHAUSTED" => switches = Budget /\ SwitchCreates = Budget /\ NoTrialBelow
    /\ (LoopExited /\ NoTrialBelow) =>
          /\ state = "EXHAUSTED"
          /\ exitCode = 1
          /\ switches = Budget
          /\ SwitchCreates = Budget

C1_Witness ==
    /\ LoopExited
    /\ state = "EXHAUSTED"
    /\ max_switches = MaxSwitches
    /\ SwitchCreates = MaxSwitches
    /\ exitCode = 1

\* the iteration has recorded its trial and decided; nothing else has happened since
Decided == pc \in {"switch", "summary"}

\* C2: a present latency below the threshold ends the loop in SUCCESS on that iteration
\* with no further switch; a present latency at or above the threshold (equality
\* included) with switches < max_switches leads to SWITCHING.
C2_Threshold ==
    (trials # <<>>) =>
        LET v == Last(trials).avg_ms IN
        /\ (v # Absent /\ v < threshold) =>
              /\ state = "SUCCESS"
              /\ success
              /\ pc \in {"summary", "write", "exited"}
              /\ Len(trials) = switches + 1
              /\ SwitchCreates = switches
        /\ (Decided /\ v # Absent /\ v >= threshold /\ switches < max_switches) =>
              /\ state = "SWITCHING"
              /\ ~success
        /\ state = "SUCCESS" => (v # Absent /\ v < threshold)

C2_Witness ==
    /\ pc = "switch"
    /\ state = "SWITCHING"
    /\ trials # <<>>
    /\ Last(trials).avg_ms = threshold

\* where an iteration with an absent measurement goes: decided by the counter alone
AbsentNext == IF switches < max_switches THEN "SWITCHING" ELSE "EXHAUSTED"

\* C3: an iteration whose ICMP measurement is absent never reaches SUCCESS; its next
\* state depends on the switch counter only, and the step is the same for both TCP
\* results except for the tcp_ok field of the appended trial.
C3_AbsentNeverSuccess ==
    /\ [](trials # <<>> /\ Last(trials).avg_ms = Absent =>
            /\ state # "SUCCESS"
            /\ ~success
            /\ exitCode # 0
            /\ Decided => state = AbsentNext)
    /\ [][(pc = "probe" /\ Len(trials') = Len(trials) + 1 /\ Last(trials').avg_ms = Absent) =>
            /\ state' = AbsentNext
            /\ pc' = (IF state' = "SWITCHING" THEN "switch" ELSE "summary")
            /\ success' = FALSE
            /\ trials' = Append(trials, [ip |-> pub.id, avg_ms |-> Absent, icmp_ok |-> FALSE,
                                         tcp_ok |-> Last(trials').tcp_ok])
            /\ UNCHANGED <<caller, envOk, hasVnic, hasPip, threshold, max_switches, cloud,
                           touched, calls, frame, pub, switches, notified, report, file,
                           disk, exitCode, hist>>]_vars

C3_Witness ==
    /\ pc = "switch"
    /\ state = "SWITCHING"
    /\ trials # <<>>
    /\ Last(trials).avg_ms = Absent
    /\ Last(trials).tcp_ok

\* C4 as stated: at most one public address is bound to the private address, and no
\* create is issued while another public address is still bound to it.
C4_Claim ==
    /\ Cardinality(BoundIds(cloud)) <= 1
    /\ \A j \in DOMAIN calls : calls[j].op = "create" => ~calls[j].busy

\* ---- properties of the lifecycle manager (specification SpecLM)

\* the returned call h took the RESERVED branch: it unbound a RESERVED binding
TookReservedBranch(h) == h.old # NoObj /\ h.old.lifetime = "RESERVED"

\* C5: a RESERVED address is never deleted: every delete targets an EPHEMERAL address,
\* every RESERVED address of the cloud still exists, and a call that handled a RESERVED
\* binding and returned issued the unbind first and then the create of the fresh
\* EPHEMERAL binding it returns.
C5_ReservedKept ==
    /\ \A i \in DOMAIN cloud : cloud[i].lifetime = "RESERVED" => cloud[i].exists
    /\ \A j \in DOMAIN calls :
          /\ calls[j].op = "delete" => cloud[calls[j].id].lifetime = "EPHEMERAL"
          /\ (calls[j].op = "unbind" /\ calls[j].fn = "ensure") =>
                cloud[calls[j].id].lifetime = "RESERVED"
    /\ \A n \in DOMAIN hist :
          TookReservedBranch(hist[n]) =>
             /\ hist[n].end > hist[n].base + 1
             /\ calls[hist[n].base + 1].op = "unbind"
             /\ calls[hist[n].base + 1].id = hist[n].old.id
             /\ calls[hist[n].end].op = "create"
             /\ calls[hist[n].end].res = "ok"
             /\ calls[hist[n].end].id = hist[n].ret.id
             /\ hist[n].ret.lifetime = "EPHEMERAL"
             /\ hist[n].ret.id # hist[n].old.id
             /\ \A j \in (hist[n].base + 1) .. hist[n].end : calls[j].op # "delete"

C5_Witness ==
    /\ hist # <<>>
    /\ hist[1].fn = "ensure"
    /\ TookReservedBranch(hist[1])
    /\ cloud[1].lifetime = "RESERVED"
    /\ cloud[1].exists
    /\ ~cloud[1].bound
    /\ BoundIds(cloud) = {hist[1].ret.id}

\* C6 as stated: of two successive calls of ensure_ephemeral_attached the second issues
\* no create, delete or unbind and returns the binding the first returned.
C6_Claim ==
    /\ \A n \in DOMAIN hist :
          (n > 1 /\ hist[n - 1].fn = "ensure" /\ hist[n].fn = "ensure") =>
             /\ hist[n].end = hist[n].base
             /\ hist[n].ret.id = hist[n - 1].ret.id
    /\ (hist # <<>> /\ Last(hist).fn = "ensure" /\ frame.fn = "ensure") =>
          Len(calls) = frame.base

\* ---- error handling of the run (specification Spec)

\* C7 as stated: a failed delete or unbind of the old binding inside switch_ephemeral_ip
\* is swallowed and the switch goes on; it never ends the run.
C7_Claim ==
    \A j \in DOMAIN calls :
        (calls[j].fn = "switch" /\ calls[j].op \in {"delete", "unbind"} /\ calls[j].res # "ok") =>
            ~(j = Len(calls) /\ pc \in RaisedPcs)

\* a create of the run failed
CreateFailed == \E j \in DOMAIN calls : calls[j].op = "create" /\ calls[j].res # "ok"

\* C8: a failed create or poll read ends the run at once: the process is dead with a
\* non-zero status, the failed call is the last call issued, no trial was recorded after
\* it, nothing was notified or written, the loop is not in SUCCESS, and no step follows.
C8_FatalCreateOrPoll ==
    /\ []((CreateFailed \/ pc = "raised_poll") =>
            /\ pc \in {"raised_create", "raised_poll"}
            /\ exitCode = 1
            /\ state # "SUCCESS"
            /\ ~success
            /\ notified = "no"
            /\ file = <<>>
            /\ Len(trials) = (IF frame.fn = "ensure" THEN 0 ELSE switches)
            /\ Last(calls).op = "create"
            /\ pc = "raised_create" => Last(calls).res # "ok"
            /\ pc = "raised_poll" => (Last(calls).res = "ok" /\ Last(calls).id = frame.new))
    /\ [][(CreateFailed \/ pc = "raised_poll") => UNCHANGED vars]_vars

C8_Witness ==
    /\ pc = "raised_poll"
    /\ frame.fn = "switch"
    /\ Len(trials) = 2

\* C9: a fatal setup error ends the run with exit code 2 before the loop: in INIT, with
\* no trial, no create, delete or unbind; a missing setting stops before any cloud call.
C9_SetupFatal ==
    /\ exitCode = 2 =>
          /\ pc = "exited"
          /\ state = "INIT"
          /\ ~(envOk /\ hasVnic /\ hasPip)
          /\ trials = <<>>
          /\ calls = <<>>
          /\ cloud \in InitialClouds
          /\ pub = NoObj
          /\ notified = "no"
          /\ file = <<>>
    /\ (~envOk /\ pc # "config") => (pc = "exited" /\ exitCode = 2 /\ ~touched)
    /\ (~hasVnic /\ pc \notin {"config", "get_instance", "pick_vnic"}) =>
          ((pc = "exited" /\ exitCode = 2) \/ pc = "raised_get_instance")
    /\ (~hasPip /\ pc \notin {"config", "get_instance", "pick_vnic", "pick_pip"}) =>
          ((pc = "exited" /\ exitCode = 2) \/ pc = "raised_get_instance")
    /\ state # "INIT" => (envOk /\ hasVnic /\ hasPip)

C9_Witness ==
    /\ exitCode = 2
    /\ envOk
    /\ hasVnic
    /\ ~hasPip
    /\ touched
    /\ cloud # <<>>

\* ---- the backoff schedule (specification SpecBackoff)

\* C10: over attempts 1..max_switches the backoff is non-decreasing and never above 10.
C10_BackoffMonotoneCapped ==
    \A j \in DOMAIN calls :
        /\ calls[j].id <= 10
        /\ calls[j].id >= 2
        /\ j > 1 => calls[j - 1].id <= calls[j].id

C10_Witness ==
    /\ Len(calls) = max_switches
    /\ max_switches = MaxAttempts
    /\ calls[1].id = 2
    /\ Last(calls).id = 10

\* ---- the outcome and the record of the run (specification Spec)

\* the loop has ended in one of its terminal states
Terminated == state \in {"SUCCESS", "EXHAUSTED"}

\* C11: a run that exits with code 0 ended in SUCCESS on its last trial: that trial has a
\* present latency strictly below the threshold, its address and latency are the final
\* ones of the summary, and every earlier trial is absent or at or above the threshold.
C11_SuccessFromLastTrial ==
    exitCode = 0 =>
        /\ pc = "exited"
        /\ state = "SUCCESS"
        /\ trials # <<>>
        /\ Last(trials).avg_ms # Absent
        /\ Last(trials).avg_ms < threshold
        /\ Last(trials).ip = pub.id
        /\ report.ok
        /\ report.final_ip = Last(trials).ip
        /\ report.final_avg = Last(trials).avg_ms
        /\ report.count = Len(trials)
        /\ Len(trials) = switches + 1
        /\ \A j \in 1 .. (Len(trials) - 1) :
              trials[j].avg_ms = Absent \/ trials[j].avg_ms >= threshold

C11_Witness ==
    /\ exitCode = 0
    /\ Len(trials) = 2
    /\ switches = 1
    /\ trials[1].ip # trials[2].ip
    /\ report.final_ip = trials[2].ip

\* C12: the trial list only grows, by one record appended per iteration, earlier records
\* unchanged; when the loop has ended the list holds one trial more than there were
\* switches.
C12_TrialsAppendOnly ==
    /\ [](Terminated => Len(trials) = switches + 1)
    /\ [][trials' # trials =>
            /\ pc = "probe"
            /\ Len(trials') = Len(trials) + 1
            /\ SubSeq(trials', 1, Len(trials)) = trials
            /\ Last(trials').ip = pub.id]_vars

C12_Witness ==
    /\ state = "SUCCESS"
    /\ Len(trials) = 3
    /\ switches = 2
    /\ trials[1].avg_ms > trials[2].avg_ms
    /\ trials[2].avg_ms >= threshold
    /\ trials[3].avg_ms < threshold

\* every probe of the run was absent and every TCP probe failed
AllUnreachable == \A j \in DOMAIN trials : trials[j].avg_ms = Absent /\ ~trials[j].tcp_ok

\* C13: the trial file is written once, after the loop has ended and just before the exit,
\* and then holds exactly the trial list of this run whatever it held before; with every
\* probe absent, every TCP probe failed and max_switches = 2 it holds 3 records, all
\* unreachable, and the exit code is 1.
C13_FileWrittenOnce ==
    /\ []((pc = "exited" /\ Terminated) => (file = <<trials>> /\ disk = trials))
    /\ [](~(pc = "exited" /\ Terminated) => (file = <<>> /\ disk \in EarlierFiles))
    /\ []((pc = "exited" /\ Terminated /\ AllUnreachable /\ max_switches = 2) =>
             /\ Len(disk) = 3
             /\ exitCode = 1
             /\ \A j \in DOMAIN disk : ~disk[j].icmp_ok /\ ~disk[j].tcp_ok)
    /\ [][(file' # file \/ disk' # disk) =>
             /\ pc = "write"
             /\ pc' = "exited"
             /\ Terminated
             /\ file = <<>>
             /\ trials' = trials]_vars

C13_Witness ==
    /\ pc = "exited"
    /\ Terminated
    /\ AllUnreachable
    /\ max_switches = 2
    /\ Len(disk) = 3
    /\ exitCode = 1

\* C14: the notifier is called once, after the loop has ended and the last trial is
\* recorded; whatever becomes of the send, the run goes on to write the file and exits
\* with 0 after SUCCESS and 1 after EXHAUSTED.
C14_NotifyOnceNonFatal ==
    /\ [](notified # "no" =>
             /\ Terminated
             /\ pc \in {"write", "exited"}
             /\ report = Summary(trials, success))
    /\ []((pc = "exited" /\ Terminated) =>
             /\ notified # "no"
             /\ file = <<trials>>
             /\ exitCode = (IF state = "SUCCESS" THEN 0 ELSE 1))
    /\ [][notified' # notified =>
             /\ notified = "no"
             /\ pc = "summary"
             /\ trials' = trials]_vars

C14_Witness ==
    /\ pc = "exited"
    /\ notified = "failed"
    /\ exitCode = 0
    /\ file = <<trials>>

\* ---- the state machine of the loop (specification SpecFair)

\* the transitions of the loop's state machine
Allowed == {<<"INIT", "PROBING">>, <<"PROBING", "SUCCESS">>, <<"PROBING", "SWITCHING">>,
            <<"SWITCHING", "PROBING">>, <<"PROBING", "EXHAUSTED">>}

\* the state machine part of C15, which holds whatever max_switches is
C15_Machine ==
    /\ [][state' # state => <<state, state'>> \in Allowed]_vars
    /\ [][Terminated => UNCHANGED <<state, trials, switches, pub, cloud, calls>>]_vars
    /\ (state = "PROBING") ~> (Terminated \/ pc \in RaisedPcs)

C16_WaitAssignedBounded ==
    /\ [](pc = "poll" => frame.k \in 0 .. Tries)
    /\ [][(pc = "poll" /\ pc' = "poll") =>
             /\ frame.k < Tries
             /\ frame'.k = frame.k + 1
             /\ frame'.new = frame.new
             /\ cloud'[frame.new].lifecycle # "ASSIGNED"]_vars
    /\ [][(pc = "poll" /\ hist' # hist) =>
             /\ hist' = Append(hist, Last(hist'))
             /\ Last(hist').ret = Obj(cloud', frame.new)
             /\ (Last(hist').ret.lifecycle # "ASSIGNED" => frame.k = Tries)]_vars

C16_Witness ==
    /\ Len(hist) >= 2
    /\ hist[1].ret.lifecycle = "ASSIGNED"
    /\ hist[2].ret.lifecycle # "ASSIGNED"
    /\ hist[2].ret.id # 0

\* ---- the binding under test (specification Spec)

\* C17: the loop never probes and never reports the address of a binding whose last
\* observed lifecycle state is not ASSIGNED.
C17_Claim ==
    /\ (trials # <<>> /\ pc \in {"switch", "summary", "write", "exited"}) =>
           pub.lifecycle = "ASSIGNED"
    /\ (notified # "no" /\ report.ok) => pub.lifecycle = "ASSIGNED"

\* C18: the binding the loop holds is EPHEMERAL from the moment the loop is entered, so
\* every address probed is EPHEMERAL and every call of switch_ephemeral_ip made by the
\* loop takes the delete branch; the loop never makes the unbind call of the RESERVED
\* branch of switch_ephemeral_ip.
C18_LoopHoldsEphemeral ==
    /\ state # "INIT" => pub.lifetime = "EPHEMERAL"
    /\ \A j \in DOMAIN trials : cloud[trials[j].ip].lifetime = "EPHEMERAL"
    /\ frame.fn = "switch" => (frame.old = pub /\ CleanupOp(frame.old) = "delete")
    /\ \A j \in DOMAIN calls : calls[j].fn = "switch" => calls[j].op # "unbind"

C18_Witness ==
    /\ pc = "s_backoff"
    /\ calls # <<>>
    /\ Last(calls).op = "delete"
    /\ Last(calls).fn = "switch"
    /\ \E i \in DOMAIN cloud : cloud[i].lifetime = "RESERVED" /\ cloud[i].exists
    /\ \E j \in DOMAIN calls : calls[j].fn = "ensure" /\ calls[j].op = "unbind"

\* C19: probes and switches alternate: a switch is started only after a probe of the
\* current address that missed the threshold, each switch is followed by one probe before
\* another switch, the address probed is that of the binding last returned, and a probe
\* changes neither the binding nor the switch counter.
C19_ProbeSwitchAlternate ==
    /\ [](Len(trials) \in {switches, switches + 1})
    /\ [](pc = "probe" => Len(trials) = switches)
    /\ [](pc = "switch" => (Len(trials) = switches + 1 /\ ~Below(Last(trials).avg_ms, threshold)
                            /\ Last(trials).ip = pub.id))
    /\ [][switches' # switches =>
             /\ pc = "switch"
             /\ switches' = switches + 1
             /\ Len(trials) = switches + 1
             /\ ~Below(Last(trials).avg_ms, threshold)
             /\ trials' = trials]_vars
    /\ [][trials' # trials =>
             /\ pc = "probe"
             /\ Last(trials').ip = pub.id
             /\ UNCHANGED <<pub, switches, cloud, calls>>]_vars
    /\ [][pub' # pub => (pc \in {"e_lookup", "poll"} /\ pc' = "probe")]_vars

C19_Witness ==
    /\ pc = "probe"
    /\ switches = 2
    /\ Len(trials) = 2
    /\ trials[1].ip # trials[2].ip
    /\ pub.id \notin {trials[1].ip, trials[2].ip}

\* C20: tcp_ping is called only in iterations whose ICMP measurement is absent, once: a
\* recorded trial with tcp_ok has icmp_ok false and no latency, icmp_ok holds exactly
\* when the latency is present, and there are as many tcp_ping calls as absent trials.
C20_TcpOnlyWhenIcmpAbsent ==
    /\ \A j \in DOMAIN trials :
          /\ trials[j].tcp_ok => (~trials[j].icmp_ok /\ trials[j].avg_ms = Absent)
          /\ trials[j].icmp_ok <=> trials[j].avg_ms # Absent
    /\ tcp_pings = Cardinality({j \in DOMAIN trials : trials[j].avg_ms = Absent})

C20_Witness ==
    /\ Len(trials) = 2
    /\ trials[1].tcp_ok
    /\ trials[2].icmp_ok
    /\ ~trials[2].tcp_ok
    /\ tcp_pings = 1
====
